---- MODULE Spec2Model ----
(***************************************************************************)
(* Model of periph's conn/gpio/gpioreg: the process-wide registry of GPIO  *)
(* pins (two tiers of number- and name-keyed maps plus an alias map),      *)
(* with Register, RegisterAlias, ByName, All and Aliases.                  *)
(*                                                                         *)
(* Strings are modelled as sequences of byte values, so that               *)
(* strconv.Atoi, strconv.Itoa and Go's string comparison are computed and  *)
(* not assumed.  Every exported function holds the mutex mu for its whole  *)
(* body: Spec and SpecEnum take each call as one atomic action, SpecConc  *)
(* runs the calls of two goroutines statement by statement under mu.      *)
(***************************************************************************)
EXTENDS Integers, Sequences, FiniteSets, TLC

VARIABLES byNumber, byName, byAlias, crashed, last, mu, th

vars == <<byNumber, byName, byAlias, crashed, last, mu, th>>

(***************************************************************************)
(* Bounds of the model.                                                    *)
(***************************************************************************)
\* at most this many pins are registered, both tiers together
MaxPins == 2
\* at most this many pins are registered in the enumeration runs
MaxEnumPins == 4

(***************************************************************************)
(* Strings: sequences of bytes.                                            *)
(***************************************************************************)
nEmpty == <<>>
nA == <<65>>
nB == <<66>>
nC == <<67>>
n1 == <<49>>
nPlus1 == <<43, 49>>
\* twenty nines: a digit string beyond the range of a 64-bit int
nBig == <<57, 57, 57, 57, 57, 57, 57, 57, 57, 57, 57, 57, 57, 57, 57, 57, 57, 57, 57, 57>>
\* the decimal digits of 1<<63 - 1 and of 1<<63
MaxInt64Digits == <<57, 50, 50, 51, 51, 55, 50, 48, 51, 54, 56, 53, 52, 55, 55, 53, 56, 48, 55>>
MinInt64Digits == <<57, 50, 50, 51, 51, 55, 50, 48, 51, 54, 56, 53, 52, 55, 55, 53, 56, 48, 56>>

IsDigit(c) == c \in 48..57
IsSign(c) == c = 43 \/ c = 45

\* Go's s > t on strings: bytewise lexicographic order, a proper prefix is smaller.
RECURSIVE StrGT(_, _)
StrGT(s, t) ==
    IF s = <<>> THEN FALSE
    ELSE IF t = <<>> THEN TRUE
    ELSE IF Head(s) # Head(t) THEN Head(s) > Head(t)
    ELSE StrGT(Tail(s), Tail(t))

RECURSIVE StripZeros(_)
StripZeros(s) ==
    IF Len(s) > 1 /\ Head(s) = 48 THEN StripZeros(Tail(s)) ELSE s

\* the digits d (no sign) denote a value above the one denoted by lim
DigitsExceed(d, lim) ==
    LET z == StripZeros(d)
    IN  Len(z) > Len(lim) \/ (Len(z) = Len(lim) /\ StrGT(z, lim))

AtoiBody(s) == IF s # <<>> /\ IsSign(Head(s)) THEN Tail(s) ELSE s

\* strconv.Atoi(s) returns a nil error: an optional sign, then one or more
\* decimal digits, the value within the range of int (64 bits).
AtoiOk(s) ==
    LET b == AtoiBody(s)
    IN  /\ b # <<>>
        /\ \A i \in 1..Len(b) : IsDigit(b[i])
        /\ ~DigitsExceed(b, IF Head(s) = 45 THEN MinInt64Digits ELSE MaxInt64Digits)

RECURSIVE DigitsVal(_)
DigitsVal(d) ==
    IF d = <<>> THEN 0
    ELSE DigitsVal(SubSeq(d, 1, Len(d) - 1)) * 10 + (d[Len(d)] - 48)

\* the value strconv.Atoi(s) returns when AtoiOk(s)
AtoiVal(s) ==
    IF Head(s) = 45 THEN 0 - DigitsVal(AtoiBody(s)) ELSE DigitsVal(AtoiBody(s))

RECURSIVE NatDigits(_)
NatDigits(n) ==
    IF n < 10 THEN <<48 + n>> ELSE Append(NatDigits(n \div 10), 48 + (n % 10))

\* strconv.Itoa(n)
Itoa(n) == IF n < 0 THEN <<45>> \o NatDigits(0 - n) ELSE NatDigits(n)

(***************************************************************************)
(* Pin handles.  A registered pin is an opaque object of a driver; drv     *)
(* tells two objects with the same name and number apart.  A *pinAlias is  *)
(* referred to by the name of its record in byAlias (records are never     *)
(* replaced, so the name identifies the pointer).                          *)
(***************************************************************************)
NilPin == [kind |-> "nil"]
\* what a call that never returns "yields": unbounded recursion, ended by the
\* runtime's fatal stack overflow
Overflow == [kind |-> "overflow"]
Pin(name, number, drv) == [kind |-> "pin", name |-> name, number |-> number, drv |-> drv]
\* a handle of some other type that implements gpio.RealPin
WrapperPin(name, number, drv) == [kind |-> "realpin", name |-> name, number |-> number, drv |-> drv]
AliasRef(name) == [kind |-> "alias", name |-> name]

\* p.(gpio.RealPin) succeeds
IsRealPin(p) == p.kind \in {"realpin", "alias"}

EmptyMap == <<>>
Put(m, k, v) == [x \in DOMAIN m \cup {k} |-> IF x = k THEN v ELSE m[x]]

OK == "ok"

\* the goroutines of the concurrent runs; mu holds the goroutine that has
\* locked it, 0 when it is free
Threads == {1, 2}
IdleThread == [pc |-> "idle", n |-> 0, call |-> [op |-> "none"], res |-> NilPin,
               exp |-> {}, race |-> 0]

Init ==
    /\ mu = 0
    /\ th = [t \in Threads |-> IdleThread]
    /\ byNumber = [i \in 0..1 |-> EmptyMap]
    /\ byName = [i \in 0..1 |-> EmptyMap]
    /\ byAlias = EmptyMap
    /\ crashed = FALSE
    /\ last = [op |-> "init"]

PinCount == Cardinality(DOMAIN byNumber[0]) + Cardinality(DOMAIN byNumber[1])

(***************************************************************************)
(* Register                                                                *)
(***************************************************************************)
TierOf(preferred) == IF preferred THEN 0 ELSE 1

\* the checks of Register without the comparison with the other tier
RegisterErrNoTierCheck(p, preferred) ==
    LET name == p.name
        number == p.number
        i == TierOf(preferred)
    IN  IF Len(name) = 0 THEN "empty-name"
        ELSE IF AtoiOk(name) THEN "numeric-name"
        ELSE IF number < 0 THEN "bad-number"
        ELSE IF number \in DOMAIN byNumber[i] THEN "duplicate-number"
        ELSE IF name \in DOMAIN byName[i] THEN "duplicate-name"
        ELSE IF IsRealPin(p) THEN "is-alias-wrapper"
        ELSE IF name \in DOMAIN byAlias THEN "name-is-alias"
        ELSE OK

\* the checks of Register without the one for a name taken in its tier
RegisterErrNoDupName(p, preferred) ==
    LET name == p.name
        number == p.number
        i == TierOf(preferred)
        other == 1 - i
    IN  IF Len(name) = 0 THEN "empty-name"
        ELSE IF AtoiOk(name) THEN "numeric-name"
        ELSE IF number < 0 THEN "bad-number"
        ELSE IF number \in DOMAIN byNumber[i] THEN "duplicate-number"
        ELSE IF IsRealPin(p) THEN "is-alias-wrapper"
        ELSE IF name \in DOMAIN byAlias THEN "name-is-alias"
        ELSE IF name \in DOMAIN byName[other] /\ number # byName[other][name].number
             THEN "tier-number-mismatch"
        ELSE OK

\* the checks of Register, in the order of the code; OK when all pass
RegisterErr(p, preferred) ==
    LET name == p.name
        number == p.number
        i == TierOf(preferred)
        other == 1 - i
    IN  IF Len(name) = 0 THEN "empty-name"
        ELSE IF AtoiOk(name) THEN "numeric-name"
        ELSE IF number < 0 THEN "bad-number"
        ELSE IF number \in DOMAIN byNumber[i] THEN "duplicate-number"
        ELSE IF name \in DOMAIN byName[i] THEN "duplicate-name"
        ELSE IF IsRealPin(p) THEN "is-alias-wrapper"
        ELSE IF name \in DOMAIN byAlias THEN "name-is-alias"
        ELSE IF name \in DOMAIN byName[other] /\ number # byName[other][name].number
             THEN "tier-number-mismatch"
        ELSE OK

\* byNumber[i][number] = p
RegisterByNumber(p, i) == [byNumber EXCEPT ![i] = Put(@, p.number, p)]
\* a Register that stores the name in the map of the other tier
RegisterByNameOtherTier(p, i) == [byName EXCEPT ![1 - i] = Put(@, p.name, p)]
\* byName[i][name] = p
RegisterByName(p, i) == [byName EXCEPT ![i] = Put(@, p.name, p)]

\* a Register that stores the number before its last check
RegisterResultEarlyInsert(p, preferred) ==
    LET err == RegisterErr(p, preferred)
        i == TierOf(preferred)
    IN  [err |-> err,
         byNumber |-> IF err \in {OK, "tier-number-mismatch"}
                      THEN RegisterByNumber(p, i) ELSE byNumber,
         byName |-> IF err = OK THEN RegisterByName(p, i) ELSE byName]

\* the body of Register: the error returned and the maps it leaves
RegisterResult(p, preferred) ==
    LET err == RegisterErr(p, preferred)
        i == TierOf(preferred)
    IN  [err |-> err,
         byNumber |-> IF err = OK THEN RegisterByNumber(p, i) ELSE byNumber,
         byName |-> IF err = OK THEN RegisterByName(p, i) ELSE byName]

Register(p, preferred) ==
    LET r == RegisterResult(p, preferred)
    IN  /\ ~crashed
        /\ byNumber' = r.byNumber
        /\ byName' = r.byName
        /\ last' = [op |-> "Register", pin |-> p, preferred |-> preferred, err |-> r.err]
        /\ UNCHANGED <<byAlias, crashed, mu, th>>

(***************************************************************************)
(* RegisterAlias                                                           *)
(***************************************************************************)
RegisterAliasErr(alias, dest) ==
    IF Len(alias) = 0 THEN "empty-alias"
    ELSE IF Len(dest) = 0 THEN "empty-dest"
    ELSE IF AtoiOk(alias) THEN "numeric-alias"
    ELSE IF alias \in DOMAIN byAlias /\ byAlias[alias].dest # dest THEN "alias-redefinition"
    ELSE OK

\* a RegisterAlias that stores a fresh record also when the alias exists
RegisterAliasMapOverwrite(alias, dest) ==
    Put(byAlias, alias, [name |-> alias, dest |-> dest, PinIO |-> NilPin])

\* the alias map after a call that passed the checks
RegisterAliasMap(alias, dest) ==
    IF alias \in DOMAIN byAlias THEN byAlias
    ELSE Put(byAlias, alias, [name |-> alias, dest |-> dest, PinIO |-> NilPin])

RegisterAlias(alias, dest) ==
    LET err == RegisterAliasErr(alias, dest)
    IN  /\ ~crashed
        /\ byAlias' = IF err = OK THEN RegisterAliasMap(alias, dest) ELSE byAlias
        /\ last' = [op |-> "RegisterAlias", alias |-> alias, dest |-> dest, err |-> err]
        /\ UNCHANGED <<byNumber, byName, crashed, mu, th>>

(***************************************************************************)
(* Lookup                                                                  *)
(***************************************************************************)
getByNumber(number) ==
    IF number \in DOMAIN byNumber[0] THEN byNumber[0][number]
    ELSE IF number \in DOMAIN byNumber[1] THEN byNumber[1][number]
    ELSE NilPin

\* a getByName that consults the alias table before the name maps
RECURSIVE getByNameAliasFirst(_, _, _)
getByNameAliasFirst(name, al, depth) ==
    IF name \in DOMAIN al THEN
        IF al[name].PinIO = NilPin THEN
            IF depth = 0 THEN [res |-> Overflow, al |-> al]
            ELSE LET r == getByNameAliasFirst(al[name].dest, al, depth - 1)
                 IN  IF r.res = Overflow THEN r
                     ELSE IF r.res = NilPin THEN [res |-> NilPin, al |-> r.al]
                     ELSE [res |-> AliasRef(name),
                           al |-> [r.al EXCEPT ![name].PinIO = r.res]]
        ELSE [res |-> AliasRef(name), al |-> al]
    ELSE IF name \in DOMAIN byName[0] THEN [res |-> byName[0][name], al |-> al]
    ELSE IF name \in DOMAIN byName[1] THEN [res |-> byName[1][name], al |-> al]
    ELSE IF AtoiOk(name) THEN [res |-> getByNumber(AtoiVal(name)), al |-> al]
    ELSE [res |-> NilPin, al |-> al]

\* a getByName that resolves an alias again although a resolution is stored
RECURSIVE getByNameReresolve(_, _, _)
getByNameReresolve(name, al, depth) ==
    IF name \in DOMAIN byName[0] THEN [res |-> byName[0][name], al |-> al]
    ELSE IF name \in DOMAIN byName[1] THEN [res |-> byName[1][name], al |-> al]
    ELSE IF name \in DOMAIN al THEN
        IF depth = 0 THEN [res |-> Overflow, al |-> al]
        ELSE LET r == getByNameReresolve(al[name].dest, al, depth - 1)
             IN  IF r.res = Overflow THEN r
                 ELSE IF r.res = NilPin THEN [res |-> NilPin, al |-> r.al]
                 ELSE [res |-> AliasRef(name),
                       al |-> [r.al EXCEPT ![name].PinIO = r.res]]
    ELSE IF AtoiOk(name) THEN [res |-> getByNumber(AtoiVal(name)), al |-> al]
    ELSE [res |-> NilPin, al |-> al]

\* getByName(name) on the alias map al: the handle returned and the alias map
\* with the resolutions it stored.  The recursion of the code has no guard: it
\* descends through every alias record whose PinIO is nil, changing nothing
\* before the inner call returns.  depth counts the unresolved alias records
\* the call chain may still enter; entering one more than there are records
\* means one of them was entered twice with the state unchanged, so the chain
\* repeats forever and the call never returns (Overflow).
RECURSIVE getByName(_, _, _)
getByName(name, al, depth) ==
    IF name \in DOMAIN byName[0] THEN [res |-> byName[0][name], al |-> al]
    ELSE IF name \in DOMAIN byName[1] THEN [res |-> byName[1][name], al |-> al]
    ELSE IF name \in DOMAIN al THEN
        IF al[name].PinIO = NilPin THEN
            IF depth = 0 THEN [res |-> Overflow, al |-> al]
            ELSE LET r == getByName(al[name].dest, al, depth - 1)
                 IN  IF r.res = Overflow THEN r
                     ELSE IF r.res = NilPin THEN [res |-> NilPin, al |-> r.al]
                     ELSE [res |-> AliasRef(name),
                           al |-> [r.al EXCEPT ![name].PinIO = r.res]]
        ELSE [res |-> AliasRef(name), al |-> al]
    ELSE IF AtoiOk(name) THEN [res |-> getByNumber(AtoiVal(name)), al |-> al]
    ELSE [res |-> NilPin, al |-> al]

ByName(name) ==
    LET r == getByName(name, byAlias, Cardinality(DOMAIN byAlias))
    IN  /\ ~crashed
        /\ byAlias' = r.al
        /\ crashed' = (r.res = Overflow)
        /\ last' = [op |-> "ByName", name |-> name, res |-> r.res]
        /\ UNCHANGED <<byNumber, byName, mu, th>>

(***************************************************************************)
(* Enumeration                                                             *)
(***************************************************************************)
\* the for loop of search: the smallest i in lo..hi with f[i], by bisection
RECURSIVE searchLoop(_, _, _)
searchLoop(lo, hi, f) ==
    IF lo < hi
    THEN LET i == (lo + hi) \div 2
         IN  IF ~f[i] THEN searchLoop(i + 1, hi, f) ELSE searchLoop(lo, i, f)
    ELSE lo

\* search(n, f); f is given as a function on the indices 0..n-1
search(n, f) == searchLoop(0, n, f)

\* l = append(l, nil); copy(l[i+1:], l[i:]); l[i] = p  (i counts from 0)
insertAt(l, i, p) == SubSeq(l, 1, i) \o <<p>> \o SubSeq(l, i + 1, Len(l))

\* an insertPinByNumber whose search predicate compares the wrong way round
insertPinByNumberLess(l, p) ==
    LET n == p.number
        i == search(Len(l), [k \in 0..(Len(l) - 1) |-> l[k + 1].number < n])
    IN  insertAt(l, i, p)

insertPinByNumber(l, p) ==
    LET n == p.number
        i == search(Len(l), [k \in 0..(Len(l) - 1) |-> l[k + 1].number > n])
    IN  insertAt(l, i, p)

\* Name() of a handle: a *pinAlias answers with its own name
NameOf(p) == p.name

insertPinByName(l, p) ==
    LET n == NameOf(p)
        i == search(Len(l), [k \in 0..(Len(l) - 1) |-> StrGT(NameOf(l[k + 1]), n)])
    IN  insertAt(l, i, p)

\* the orders in which a range loop may visit the keys S of a map
Orders(S) ==
    {o \in [1..Cardinality(S) -> S] : \A i, j \in 1..Cardinality(S) : o[i] = o[j] => i = j}

\* first loop of All: every tier-0 pin, visited in the order o
RECURSIVE allTier0(_, _)
allTier0(o, out) ==
    IF o = <<>> THEN out
    ELSE allTier0(Tail(o), insertPinByNumber(out, byNumber[0][Head(o)]))

\* second loop of All: the tier-1 pins whose number is not in seen
RECURSIVE allTier1(_, _, _)
allTier1(o, seen, out) ==
    IF o = <<>> THEN out
    ELSE allTier1(Tail(o), seen,
                  IF Head(o) \in seen THEN out
                  ELSE insertPinByNumber(out, byNumber[1][Head(o)]))

\* what All() returns when the maps are visited in the orders o0 and o1
allResult(o0, o1) == allTier1(o1, DOMAIN byNumber[0], allTier0(o0, <<>>))

All ==
    /\ ~crashed
    /\ \E o0 \in Orders(DOMAIN byNumber[0]), o1 \in Orders(DOMAIN byNumber[1]) :
           last' = [op |-> "All", res |-> allResult(o0, o1)]
    /\ UNCHANGED <<byNumber, byName, byAlias, crashed, mu, th>>

\* the loop of Aliases over the alias names in the order o: the list built,
\* the alias map with the resolutions stored, and whether a resolution
\* never returned
RECURSIVE aliasesLoop(_, _, _)
aliasesLoop(o, al, out) ==
    IF o = <<>> THEN [res |-> out, al |-> al, overflow |-> FALSE]
    ELSE LET k == Head(o)
         IN  IF al[k].PinIO = NilPin
             THEN LET r == getByName(al[k].dest, al, Cardinality(DOMAIN al))
                  IN  IF r.res = Overflow THEN [res |-> out, al |-> r.al, overflow |-> TRUE]
                      ELSE IF r.res = NilPin THEN aliasesLoop(Tail(o), r.al, out)
                      ELSE aliasesLoop(Tail(o), [r.al EXCEPT ![k].PinIO = r.res],
                                       insertPinByName(out, AliasRef(k)))
             ELSE aliasesLoop(Tail(o), al, insertPinByName(out, AliasRef(k)))

Aliases ==
    /\ ~crashed
    /\ \E o \in Orders(DOMAIN byAlias) :
           LET r == aliasesLoop(o, byAlias, <<>>)
           IN  /\ byAlias' = r.al
               /\ crashed' = r.overflow
               /\ last' = [op |-> "Aliases",
                           res |-> IF r.overflow THEN <<Overflow>> ELSE r.res]
    /\ UNCHANGED <<byNumber, byName, mu, th>>

(***************************************************************************)
(* The calls the environment makes.                                        *)
(***************************************************************************)
\* Two drivers offer handles: driver 0 maps the registers in memory and
\* registers as preferred, driver 1 goes through the OS.
PinNames == {nB, nC}
PinNumbers == {0, 1}
GoodPins == {Pin(n, k, d) : n \in PinNames, k \in PinNumbers, d \in {0, 1}}
\* handles the checks of Register are there for
OddPins == {Pin(nEmpty, 0, 0), Pin(n1, 1, 0), Pin(nBig, 1, 0), Pin(nA, -1, 0),
            WrapperPin(nC, 1, 0)}
AliasNames == {nA, nB}
DestNames == {nA, nB, nC, n1}
\* arguments the checks of RegisterAlias are there for
OddAliases == {<<nEmpty, nA>>, <<nA, nEmpty>>, <<n1, nA>>}
LookupNames == {nA, nB, nC, n1, nPlus1}

\* the registry has room for the pin, or the call fails anyway
Room(p, preferred, cap) == RegisterErr(p, preferred) = OK => PinCount < cap

RegisterGood == \E p \in GoodPins : Room(p, p.drv = 0, MaxPins) /\ Register(p, p.drv = 0)
RegisterOdd == \E p \in OddPins : Room(p, TRUE, MaxPins) /\ Register(p, TRUE)
RegisterAliasGood == \E alias \in AliasNames, dest \in DestNames : RegisterAlias(alias, dest)
RegisterAliasOdd == \E a \in OddAliases : RegisterAlias(a[1], a[2])
ByNameAny == \E name \in LookupNames : ByName(name)

Next ==
    \/ RegisterGood
    \/ RegisterOdd
    \/ RegisterAliasGood
    \/ RegisterAliasOdd
    \/ ByNameAny
    \/ All
    \/ Aliases

Spec == Init /\ [][Next]_vars

(***************************************************************************)
(* Enumeration runs: more pins and more numbers, one alias name, no        *)
(* lookups by name.                                                        *)
(***************************************************************************)
EnumNames == {nA, nB, nC}
EnumNumbers == {0, 1, 2}
EnumPins == {Pin(n, k, d) : n \in EnumNames, k \in EnumNumbers, d \in {0, 1}}
EnumDests == {nB, n1}

RegisterEnum == \E p \in EnumPins : Room(p, p.drv = 0, MaxEnumPins) /\ Register(p, p.drv = 0)
RegisterAliasEnum == \E dest \in EnumDests : RegisterAlias(nA, dest)

NextEnum ==
    \/ RegisterEnum
    \/ RegisterAliasEnum
    \/ All
    \/ Aliases

SpecEnum == Init /\ [][NextEnum]_vars

(***************************************************************************)
(* Concurrent runs: two goroutines call the exported functions; a call is  *)
(* its checks before the lock, mu.Lock(), the statements of its body, and  *)
(* the deferred mu.Unlock().                                               *)
(***************************************************************************)
MaxConcCalls == 3

ConcPins == {Pin(nB, 0, 0), Pin(nC, 0, 0), Pin(nB, 1, 0), Pin(nB, 0, 1), Pin(n1, 1, 0)}
ConcAliases == {<<nA, nB>>, <<n1, nA>>}
ConcNames == {nA, nB}
ConcCalls ==
    {[op |-> "Register", pin |-> p, preferred |-> (p.drv = 0)] : p \in ConcPins}
    \cup {[op |-> "RegisterAlias", alias |-> a[1], dest |-> a[2]] : a \in ConcAliases}
    \cup {[op |-> "ByName", name |-> n] : n \in ConcNames}
    \cup {[op |-> "All"], [op |-> "Aliases"]}

\* the checks a call makes before it locks mu
PreLockErr(c) ==
    IF c.op = "Register" THEN
        IF Len(c.pin.name) = 0 THEN "empty-name"
        ELSE IF AtoiOk(c.pin.name) THEN "numeric-name"
        ELSE IF c.pin.number < 0 THEN "bad-number"
        ELSE OK
    ELSE IF c.op = "RegisterAlias" THEN
        IF Len(c.alias) = 0 THEN "empty-alias"
        ELSE IF Len(c.dest) = 0 THEN "empty-dest"
        ELSE IF AtoiOk(c.alias) THEN "numeric-alias"
        ELSE OK
    ELSE OK

\* what the call c returns and the maps it leaves when its whole body runs
\* on the current state, for every order of the map iterations
Outcomes(c) ==
    IF c.op = "Register" THEN
        LET r == RegisterResult(c.pin, c.preferred)
        IN  {[res |-> r.err, byNumber |-> r.byNumber, byName |-> r.byName,
              byAlias |-> byAlias]}
    ELSE IF c.op = "RegisterAlias" THEN
        LET err == RegisterAliasErr(c.alias, c.dest)
        IN  {[res |-> err, byNumber |-> byNumber, byName |-> byName,
              byAlias |-> IF err = OK THEN RegisterAliasMap(c.alias, c.dest)
                          ELSE byAlias]}
    ELSE IF c.op = "ByName" THEN
        LET r == getByName(c.name, byAlias, Cardinality(DOMAIN byAlias))
        IN  {[res |-> r.res, byNumber |-> byNumber, byName |-> byName,
              byAlias |-> r.al]}
    ELSE IF c.op = "All" THEN
        {[res |-> allResult(o0, o1), byNumber |-> byNumber, byName |-> byName,
          byAlias |-> byAlias] :
            o0 \in Orders(DOMAIN byNumber[0]), o1 \in Orders(DOMAIN byNumber[1])}
    ELSE
        {LET r == aliasesLoop(o, byAlias, <<>>)
         IN  [res |-> IF r.overflow THEN <<Overflow>> ELSE r.res,
              byNumber |-> byNumber, byName |-> byName, byAlias |-> r.al] :
            o \in Orders(DOMAIN byAlias)}

\* two Register calls for the same tier and the same number or name
SameSlot(c, d) ==
    /\ c.op = "Register" /\ d.op = "Register"
    /\ c.preferred = d.preferred
    /\ (c.pin.number = d.pin.number \/ c.pin.name = d.pin.name)

\* the call c starts while the other goroutine u waits for mu with a Register
\* for the same slot, and each of the two would succeed on the current
\* state: the number of u's call, else 0
RaceWith(c, u) ==
    IF /\ th[u].pc = "wait"
       /\ SameSlot(c, th[u].call)
       /\ RegisterErr(c.pin, c.preferred) = OK
       /\ RegisterErr(th[u].call.pin, th[u].call.preferred) = OK
    THEN th[u].n ELSE 0

\* goroutine t calls a function: the checks before the lock either return
\* the error or let the call go on to mu.Lock()
Call(t) ==
    /\ ~crashed
    /\ th[t].pc = "idle"
    /\ th[1].n + th[2].n < MaxConcCalls
    /\ \E c \in ConcCalls :
           LET err == PreLockErr(c)
               u == CHOOSE x \in Threads : x # t
           IN  th' = [th EXCEPT ![t] =
                         [pc |-> IF err = OK THEN "wait" ELSE "idle",
                          n |-> th[t].n + 1, call |-> c,
                          res |-> IF err = OK THEN NilPin ELSE err,
                          exp |-> {}, race |-> RaceWith(c, u)]]
    /\ UNCHANGED <<byNumber, byName, byAlias, crashed, last, mu>>

\* a mutex that can be locked while it is held
CanLockAlways(t) == TRUE
\* mu.Lock() returns only when no goroutine holds mu
CanLock(t) == mu = 0

\* mu.Lock(); exp records what the call does when nothing intervenes
Lock(t) ==
    /\ ~crashed
    /\ th[t].pc = "wait"
    /\ CanLock(t)
    /\ mu' = t
    /\ th' = [th EXCEPT ![t].pc = "locked", ![t].exp = Outcomes(th[t].call)]
    /\ UNCHANGED <<byNumber, byName, byAlias, crashed, last>>

\* the checks of Register under the lock
RegisterChecks(t) ==
    /\ ~crashed
    /\ th[t].pc = "locked" /\ th[t].call.op = "Register"
    /\ LET err == RegisterErr(th[t].call.pin, th[t].call.preferred)
       IN  th' = [th EXCEPT ![t].pc = IF err = OK THEN "ins1" ELSE "ret",
                            ![t].res = err]
    /\ UNCHANGED <<byNumber, byName, byAlias, crashed, last, mu>>

\* byNumber[i][number] = p
RegisterIns1(t) ==
    /\ ~crashed
    /\ th[t].pc = "ins1"
    /\ byNumber' = RegisterByNumber(th[t].call.pin, TierOf(th[t].call.preferred))
    /\ th' = [th EXCEPT ![t].pc = "ins2"]
    /\ UNCHANGED <<byName, byAlias, crashed, last, mu>>

\* byName[i][name] = p; return nil
RegisterIns2(t) ==
    /\ ~crashed
    /\ th[t].pc = "ins2"
    /\ byName' = RegisterByName(th[t].call.pin, TierOf(th[t].call.preferred))
    /\ th' = [th EXCEPT ![t].pc = "ret", ![t].res = OK]
    /\ UNCHANGED <<byNumber, byAlias, crashed, last, mu>>

\* the body of RegisterAlias under the lock
RegisterAliasBody(t) ==
    /\ ~crashed
    /\ th[t].pc = "locked" /\ th[t].call.op = "RegisterAlias"
    /\ LET err == RegisterAliasErr(th[t].call.alias, th[t].call.dest)
       IN  /\ byAlias' = IF err = OK
                         THEN RegisterAliasMap(th[t].call.alias, th[t].call.dest)
                         ELSE byAlias
           /\ th' = [th EXCEPT ![t].pc = "ret", ![t].res = err]
    /\ UNCHANGED <<byNumber, byName, crashed, last, mu>>

\* return getByName(name)
ByNameBody(t) ==
    /\ ~crashed
    /\ th[t].pc = "locked" /\ th[t].call.op = "ByName"
    /\ LET r == getByName(th[t].call.name, byAlias, Cardinality(DOMAIN byAlias))
       IN  /\ byAlias' = r.al
           /\ crashed' = (r.res = Overflow)
           /\ th' = [th EXCEPT ![t].pc = "ret", ![t].res = r.res]
    /\ UNCHANGED <<byNumber, byName, last, mu>>

\* the body of All
AllBody(t) ==
    /\ ~crashed
    /\ th[t].pc = "locked" /\ th[t].call.op = "All"
    /\ \E o0 \in Orders(DOMAIN byNumber[0]), o1 \in Orders(DOMAIN byNumber[1]) :
           th' = [th EXCEPT ![t].pc = "ret", ![t].res = allResult(o0, o1)]
    /\ UNCHANGED <<byNumber, byName, byAlias, crashed, last, mu>>

\* the body of Aliases
AliasesBody(t) ==
    /\ ~crashed
    /\ th[t].pc = "locked" /\ th[t].call.op = "Aliases"
    /\ \E o \in Orders(DOMAIN byAlias) :
           LET r == aliasesLoop(o, byAlias, <<>>)
           IN  /\ byAlias' = r.al
               /\ crashed' = r.overflow
               /\ th' = [th EXCEPT ![t].pc = "ret",
                                   ![t].res = IF r.overflow THEN <<Overflow>> ELSE r.res]
    /\ UNCHANGED <<byNumber, byName, last, mu>>

\* the deferred mu.Unlock(), and the return to the caller
Unlock(t) ==
    /\ ~crashed
    /\ th[t].pc = "ret"
    /\ mu' = 0
    /\ th' = [th EXCEPT ![t].pc = "idle"]
    /\ UNCHANGED <<byNumber, byName, byAlias, crashed, last>>

NextConc ==
    \/ \E t \in Threads : Call(t)
    \/ \E t \in Threads : Lock(t)
    \/ \E t \in Threads : RegisterChecks(t)
    \/ \E t \in Threads : RegisterIns1(t)
    \/ \E t \in Threads : RegisterIns2(t)
    \/ \E t \in Threads : RegisterAliasBody(t)
    \/ \E t \in Threads : ByNameBody(t)
    \/ \E t \in Threads : AllBody(t)
    \/ \E t \in Threads : AliasesBody(t)
    \/ \E t \in Threads : Unlock(t)

SpecConc == Init /\ [][NextConc]_vars

(***************************************************************************)
(* Vocabulary of the properties.                                           *)
(***************************************************************************)
Tiers == {0, 1}
RegisteredNames == DOMAIN byName[0] \cup DOMAIN byName[1]
RegisteredNumbers == DOMAIN byNumber[0] \cup DOMAIN byNumber[1]
RegisteredPins == {byName[i][n] : <<i, n>> \in {t \in Tiers \X RegisteredNames : t[2] \in DOMAIN byName[t[1]]}}

\* what ByName(name) returns when called in the current state
Lookup(name) == getByName(name, byAlias, Cardinality(DOMAIN byAlias)).res

\* the registered pin at the end of a handle's chain of embedded PinIO fields
\* (the handle itself when it is no alias); n bounds the walk
RECURSIVE RealChain(_, _)
RealChain(h, n) ==
    IF h.kind = "alias" /\ n > 0 THEN RealChain(byAlias[h.name].PinIO, n - 1) ELSE h

Underlying(h) == RealChain(h, Cardinality(DOMAIN byAlias) + 1)

\* the last call was a Register that returned nil
RegisterDone == last.op = "Register" /\ last.err = OK

\* the two maps of each tier hold the same handles under their own keys
Mirror ==
    \A i \in Tiers :
        /\ \A k \in DOMAIN byNumber[i] :
               LET p == byNumber[i][k]
               IN  p.number = k /\ p.name \in DOMAIN byName[i] /\ byName[i][p.name] = p
        /\ \A n \in DOMAIN byName[i] :
               LET p == byName[i][n]
               IN  p.name = n /\ p.number \in DOMAIN byNumber[i] /\ byNumber[i][p.number] = p
        /\ Cardinality(DOMAIN byNumber[i]) = Cardinality(DOMAIN byName[i])

(***************************************************************************)
(* C1: a name is never at once a key of a tier name map and a key of the   *)
(* alias map.  Register refuses a name that is an alias, but RegisterAlias *)
(* never looks at the name maps, so the statement fails.                   *)
(***************************************************************************)
C1_NamesAndAliasesDisjoint == RegisteredNames \cap DOMAIN byAlias = {}

(***************************************************************************)
(* C2: Register is all-or-nothing.  A call that returns nil has put the    *)
(* pin into the number map and the name map of the selected tier and       *)
(* changed nothing else; a call that returns an error has changed none of  *)
(* the five maps.                                                          *)
(***************************************************************************)
C2_RegisterStep ==
    last'.op = "Register" =>
        LET p == last'.pin
            i == IF last'.preferred THEN 0 ELSE 1
        IN  IF last'.err = OK
            THEN /\ DOMAIN byNumber'[i] = DOMAIN byNumber[i] \cup {p.number}
                 /\ DOMAIN byName'[i] = DOMAIN byName[i] \cup {p.name}
                 /\ byNumber'[i][p.number] = p
                 /\ byName'[i][p.name] = p
                 /\ \A k \in DOMAIN byNumber[i] \ {p.number} : byNumber'[i][k] = byNumber[i][k]
                 /\ \A k \in DOMAIN byName[i] \ {p.name} : byName'[i][k] = byName[i][k]
                 /\ byNumber'[1 - i] = byNumber[1 - i]
                 /\ byName'[1 - i] = byName[1 - i]
                 /\ byAlias' = byAlias
            ELSE /\ byNumber' = byNumber
                 /\ byName' = byName
                 /\ byAlias' = byAlias

C2_RegisterAllOrNothing == [][C2_RegisterStep]_vars

\* a second pin has just been registered, into tier 1
C2_Witness ==
    /\ RegisterDone
    /\ ~last.preferred
    /\ PinCount = 2
    /\ byName[1][last.pin.name] = last.pin
    /\ byNumber[1][last.pin.number] = last.pin

(***************************************************************************)
(* C3: for every registered pin p, ByName(p.Name()) and                    *)
(* ByName(strconv.Itoa(p.Number())) return the same pin.  Register never   *)
(* compares the names two tiers give to one number, so the statement       *)
(* fails.                                                                  *)
(***************************************************************************)
C3_NameAndNumberSamePin ==
    \A p \in RegisteredPins : Lookup(p.name) = Lookup(Itoa(p.number))

(***************************************************************************)
(* C4: ByName on a name of a cyclic alias chain whose members never reach  *)
(* a registered pin terminates and returns absent.  getByName has no guard *)
(* against a cycle: the call recurses until the runtime aborts the         *)
(* process, so the statement fails.                                        *)
(***************************************************************************)
\* following the destinations from name leads back to an alias already
\* passed, without meeting a registered name
RECURSIVE CycleFrom(_, _)
CycleFrom(name, visited) ==
    IF name \in RegisteredNames \/ name \notin DOMAIN byAlias THEN FALSE
    ELSE IF name \in visited THEN TRUE
    ELSE CycleFrom(byAlias[name].dest, visited \cup {name})

C4_CyclicLookupReturnsAbsent ==
    (last.op = "ByName" /\ CycleFrom(last.name, {})) => (~crashed /\ last.res = NilPin)

(***************************************************************************)
(* C5: a ByName that returns gives the first match in the order tier-0    *)
(* name map, tier-1 name map, alias table, and only then, for a name that  *)
(* parses as an integer, tier-0 number map, tier-1 number map; absent when *)
(* nothing matches.  A match in the alias table is the alias record when   *)
(* it is resolved and absent when it is not.                               *)
(***************************************************************************)
FirstMatch(name) ==
    IF name \in DOMAIN byName[0] THEN byName[0][name]
    ELSE IF name \in DOMAIN byName[1] THEN byName[1][name]
    ELSE IF name \in DOMAIN byAlias
         THEN IF byAlias[name].PinIO = NilPin THEN NilPin ELSE AliasRef(name)
    ELSE IF AtoiOk(name) /\ AtoiVal(name) \in DOMAIN byNumber[0]
         THEN byNumber[0][AtoiVal(name)]
    ELSE IF AtoiOk(name) /\ AtoiVal(name) \in DOMAIN byNumber[1]
         THEN byNumber[1][AtoiVal(name)]
    ELSE NilPin

C5_LookupOrder ==
    (last.op = "ByName" /\ last.res # Overflow) => last.res = FirstMatch(last.name)

\* a name that is a tier-1 pin and an alias was looked up: the pin won
C5_Witness ==
    /\ last.op = "ByName"
    /\ last.name \in DOMAIN byName[1] \cap DOMAIN byAlias
    /\ last.name \notin DOMAIN byName[0]
    /\ last.res = byName[1][last.name]

(***************************************************************************)
(* C6: once alias a has destination b, alias b has destination c and a    *)
(* pin named c is registered, ByName(a) resolves to the pin named c.  A    *)
(* pin named b that was registered before the alias b (see C1) is found    *)
(* first, so the statement fails.                                          *)
(***************************************************************************)
C6_MultiHopReachesPin ==
    \A a \in DOMAIN byAlias :
        LET b == byAlias[a].dest
        IN  (/\ last.op = "ByName"
             /\ last.name = a
             /\ b \in DOMAIN byAlias
             /\ b # a
             /\ byAlias[b].dest \in RegisteredNames)
            => (/\ last.res # Overflow
                /\ Underlying(last.res).kind = "pin"
                /\ Underlying(last.res).name = byAlias[b].dest)

(***************************************************************************)
(* C7: forward references resolve lazily.  For an alias x with destination *)
(* y, ByName(x) returns absent as long as nothing is registered under y,  *)
(* and once a pin named or numbered y is registered every ByName(x)        *)
(* resolves to the pin ByName(y) returns, whatever was queried in between. *)
(* The statement fails: a pin named x registered before the alias is       *)
(* returned instead of absent, and a resolution stored before a later      *)
(* Register is never refreshed.                                            *)
(***************************************************************************)
\* y is the name of a registered pin, or the number of one
RegisteredAs(y) ==
    \/ y \in RegisteredNames
    \/ AtoiOk(y) /\ AtoiVal(y) \in RegisteredNumbers

C7_ForwardReference ==
    \A x \in DOMAIN byAlias :
        LET y == byAlias[x].dest
        IN  (last.op = "ByName" /\ last.name = x /\ y \notin DOMAIN byAlias)
            => IF RegisteredAs(y)
               THEN last.res # NilPin /\ Underlying(last.res) = Lookup(y)
               ELSE last.res = NilPin

(***************************************************************************)
(* C8: All() returns exactly one pin for each number registered in either  *)
(* tier and nothing else, in strictly ascending order of number; for a     *)
(* number registered in both tiers the entry is the tier-0 handle; no      *)
(* alias is in the result.                                                 *)
(***************************************************************************)
C8_AllResult ==
    last.op = "All" =>
        LET r == last.res
        IN  /\ Len(r) = Cardinality(RegisteredNumbers)
            /\ {r[k].number : k \in 1..Len(r)} = RegisteredNumbers
            /\ \A k \in 1..(Len(r) - 1) : r[k].number < r[k + 1].number
            /\ \A k \in 1..Len(r) :
                   /\ r[k].kind = "pin"
                   /\ r[k] = IF r[k].number \in DOMAIN byNumber[0]
                             THEN byNumber[0][r[k].number]
                             ELSE byNumber[1][r[k].number]

\* All() returned three pins, one of them registered in both tiers, while an
\* alias exists
C8_Witness ==
    /\ last.op = "All"
    /\ Len(last.res) = 3
    /\ \E n \in DOMAIN byNumber[0] \cap DOMAIN byNumber[1] : byNumber[0][n] # byNumber[1][n]
    /\ DOMAIN byAlias # {}

(***************************************************************************)
(* C9: Aliases() returns exactly one entry for each alias whose            *)
(* destination resolves to a pin and none for the others, each entry the   *)
(* alias's own record, in strictly ascending order of alias name.  An      *)
(* alias on a cycle is not omitted: resolving it never returns (see C4),   *)
(* so the statement fails.                                                 *)
(***************************************************************************)
\* name leads to a registered pin: it is a registered name, or an alias whose
\* destination leads to one, or the number of a registered pin
RECURSIVE Resolves(_, _)
Resolves(name, visited) ==
    IF name \in RegisteredNames THEN TRUE
    ELSE IF name \in DOMAIN byAlias
         THEN name \notin visited /\ Resolves(byAlias[name].dest, visited \cup {name})
    ELSE AtoiOk(name) /\ AtoiVal(name) \in RegisteredNumbers

ResolvableAliases == {a \in DOMAIN byAlias : Resolves(byAlias[a].dest, {a})}

C9_AliasesResult ==
    last.op = "Aliases" =>
        LET r == last.res
        IN  /\ ~crashed
            /\ {r[k] : k \in 1..Len(r)} = {AliasRef(a) : a \in ResolvableAliases}
            /\ \A k \in 1..(Len(r) - 1) : StrGT(r[k + 1].name, r[k].name)

(***************************************************************************)
(* C10: RegisterAlias on an alias that exists succeeds and changes nothing *)
(* (the stored resolution included) when the destination is the stored     *)
(* one, and fails and changes nothing when it is another.                  *)
(***************************************************************************)
C10_RegisterAliasStep ==
    (last'.op = "RegisterAlias" /\ last'.alias \in DOMAIN byAlias) =>
        /\ (last'.err = OK) = (byAlias[last'.alias].dest = last'.dest)
        /\ byAlias' = byAlias
        /\ byNumber' = byNumber
        /\ byName' = byName

C10_RegisterAliasIdempotent == [][C10_RegisterAliasStep]_vars

\* an alias that holds a resolution was registered again with its destination
C10_Witness ==
    /\ last.op = "RegisterAlias"
    /\ last.err = OK
    /\ last.alias \in DOMAIN byAlias
    /\ byAlias[last.alias].PinIO # NilPin

(***************************************************************************)
(* C11: a name present in both tier name maps maps to pins with the same   *)
(* number in both tiers, whichever tier was registered first.              *)
(***************************************************************************)
C11_TiersAgreeOnNumber ==
    \A n \in DOMAIN byName[0] \cap DOMAIN byName[1] :
        byName[0][n].number = byName[1][n].number

\* a name registered in tier 1 first has just been registered in tier 0
C11_Witness ==
    /\ RegisterDone
    /\ last.preferred
    /\ last.pin.name \in DOMAIN byName[1]
    /\ byName[0][last.pin.name] = last.pin
    /\ byName[1][last.pin.name] # last.pin

(***************************************************************************)
(* C12: Register into a tier fails whenever the pin's number or name is    *)
(* already registered in that tier, and the handle registered before stays *)
(* in place; registering a (number, name) that only the other tier holds   *)
(* succeeds.  The second half fails when an alias of that name was         *)
(* registered in between (see C1).                                         *)
(***************************************************************************)
C12_RegisterStep ==
    last'.op = "Register" =>
        LET p == last'.pin
            i == IF last'.preferred THEN 0 ELSE 1
        IN  /\ (p.number \in DOMAIN byNumber[i] \/ p.name \in DOMAIN byName[i])
               => (last'.err # OK /\ byNumber'[i] = byNumber[i] /\ byName'[i] = byName[i])
            /\ (/\ p.kind = "pin"
                /\ p.number \notin DOMAIN byNumber[i]
                /\ p.name \notin DOMAIN byName[i]
                /\ p.name \in DOMAIN byName[1 - i]
                /\ byName[1 - i][p.name].number = p.number)
               => last'.err = OK

C12_DuplicatesRejected == [][C12_RegisterStep]_vars

(***************************************************************************)
(* C13: under every interleaving of the calls of two goroutines each call  *)
(* behaves as if it ran alone at the moment it locked mu: what it returns  *)
(* and the maps it leaves are an outcome of its whole body on the state it *)
(* locked; a call that has locked mu finds each tier's two maps mirroring  *)
(* each other; and of two Register calls for the same tier and number (or  *)
(* name) that wait for mu together, each able to succeed, exactly one      *)
(* succeeds.                                                               *)
(***************************************************************************)
C13_Linearizable ==
    /\ \A t \in Threads : th[t].pc = "locked" => Mirror
    /\ \A t \in Threads :
           th[t].pc = "ret" =>
               [res |-> th[t].res, byNumber |-> byNumber, byName |-> byName,
                byAlias |-> byAlias] \in th[t].exp
    /\ \A t \in Threads, u \in Threads :
           (/\ t # u
            /\ th[t].pc = "idle" /\ th[u].pc = "idle"
            /\ th[t].race # 0 /\ th[t].race = th[u].n)
               => ((th[t].res = OK) # (th[u].res = OK))

\* two Register calls for one slot waited for mu together and both returned
C13_Witness ==
    \E t \in Threads, u \in Threads :
        /\ t # u
        /\ th[t].pc = "idle" /\ th[u].pc = "idle"
        /\ th[t].race # 0 /\ th[t].race = th[u].n
        /\ SameSlot(th[t].call, th[u].call)
        /\ OK \in {th[t].res, th[u].res}

(***************************************************************************)
(* C14: the registry only grows.  Across every step each entry of the      *)
(* four tier maps stays with the same handle, and each alias record stays  *)
(* with the same name and destination; only its PinIO field may change.    *)
(***************************************************************************)
C14_GrowStep ==
    /\ \A i \in Tiers :
           /\ \A k \in DOMAIN byNumber[i] :
                  k \in DOMAIN byNumber'[i] /\ byNumber'[i][k] = byNumber[i][k]
           /\ \A n \in DOMAIN byName[i] :
                  n \in DOMAIN byName'[i] /\ byName'[i][n] = byName[i][n]
    /\ \A a \in DOMAIN byAlias :
           /\ a \in DOMAIN byAlias'
           /\ byAlias'[a].name = byAlias[a].name
           /\ byAlias'[a].dest = byAlias[a].dest

C14_RegistryOnlyGrows == [][C14_GrowStep]_vars

\* a lookup has stored a resolution in a registry of two pins
C14_Witness ==
    /\ last.op = "ByName"
    /\ PinCount = 2
    /\ \E a \in DOMAIN byAlias : byAlias[a].PinIO # NilPin

(***************************************************************************)
(* C15: Register fails with the numeric-name error for every name that     *)
(* consists only of decimal digits, however long, so no such name is a key *)
(* of a tier name map.  The check is strconv.Atoi's error, and Atoi also   *)
(* fails on digits beyond the range of int, so the statement fails.        *)
(***************************************************************************)
AllDigits(s) == s # <<>> /\ \A k \in 1..Len(s) : IsDigit(s[k])

C15_DigitNamesRejected ==
    /\ (last.op = "Register" /\ AllDigits(last.pin.name)) => last.err = "numeric-name"
    /\ \A n \in RegisteredNames : ~AllDigits(n)

(***************************************************************************)
(* C16: alias memoization.  A stored resolution is never changed by any    *)
(* step; a ByName that returns an alias has stored, in an alias that had   *)
(* none, what its destination resolved to; a ByName that returns absent    *)
(* has changed nothing; after Aliases() exactly the aliases it returned    *)
(* hold a resolution.                                                      *)
(***************************************************************************)
C16_MemoStep ==
    /\ \A a \in DOMAIN byAlias :
           byAlias[a].PinIO # NilPin => byAlias'[a].PinIO = byAlias[a].PinIO
    /\ (last'.op = "ByName" /\ last'.res = NilPin)
           => (byAlias' = byAlias /\ byNumber' = byNumber /\ byName' = byName)
    /\ (last'.op = "ByName" /\ last'.res.kind = "alias")
           => LET a == last'.res.name
              IN  /\ byAlias'[a].PinIO # NilPin
                  /\ byAlias[a].PinIO = NilPin
                         => byAlias'[a].PinIO = Lookup(byAlias[a].dest)
    /\ (last'.op = "Aliases" /\ ~crashed')
           => \A a \in DOMAIN byAlias :
                  (byAlias'[a].PinIO # NilPin)
                      = (\E k \in 1..Len(last'.res) : last'.res[k] = AliasRef(a))

C16_AliasMemoization == [][C16_MemoStep]_vars

\* an alias was looked up again after its destination became a tier-0 pin:
\* it still holds the tier-1 handle stored before
C16_Witness ==
    /\ last.op = "ByName"
    /\ last.name \in DOMAIN byAlias
    /\ last.res = AliasRef(last.name)
    /\ byAlias[last.name].PinIO \in RegisteredPins
    /\ byAlias[last.name].PinIO # Lookup(byAlias[last.name].dest)

(***************************************************************************)
(* C17: an alias resolves to what its destination currently resolves to:   *)
(* the pin under ByName(a) is the pin under ByName(d) for every alias a    *)
(* with destination d.  The stored resolution is never refreshed, and a    *)
(* pin of the alias's own name is found first, so the statement fails.     *)
(***************************************************************************)
C17_AliasFollowsDestination ==
    (last.op = "ByName" /\ last.name \in DOMAIN byAlias /\ last.res # Overflow)
        => Underlying(last.res) = Underlying(Lookup(byAlias[last.name].dest))

(***************************************************************************)
(* C18: the real pin of an alias handle is a registered pin: the PinIO a   *)
(* resolved alias record holds is a handle of a tier map, never an alias   *)
(* record.  For an alias of an alias it is the inner alias record, so the  *)
(* statement fails.                                                        *)
(***************************************************************************)
\* Real() of the alias record a
Real(a) == byAlias[a].PinIO

C18_RealIsRegisteredPin ==
    \A a \in DOMAIN byAlias : Real(a) # NilPin => Real(a) \in RegisteredPins

(***************************************************************************)
(* C19: for every name registered in either tier the handle ByName(name)   *)
(* returns is an element of All().  A tier-1 pin whose number the other    *)
(* tier holds under another name is left out of All(), so the statement    *)
(* fails.                                                                  *)
(***************************************************************************)
C19_NamedPinsEnumerated ==
    \A name \in RegisteredNames :
        \A o0 \in Orders(DOMAIN byNumber[0]), o1 \in Orders(DOMAIN byNumber[1]) :
            \E k \in 1..Len(allResult(o0, o1)) : allResult(o0, o1)[k] = Lookup(name)

(***************************************************************************)
(* C20: within each tier the number map and the name map mirror each       *)
(* other: a handle is stored under its number exactly when it is stored    *)
(* under its name, and both maps have the same size.                       *)
(***************************************************************************)
C20_TierMapsMirror == Mirror

\* a second pin has just been registered into tier 0
C20_Witness ==
    /\ RegisterDone
    /\ last.preferred
    /\ Cardinality(DOMAIN byNumber[0]) = 2
    /\ Cardinality(DOMAIN byName[0]) = 2

====
